---- MODULE Spec2Model ----
(***************************************************************************)
(* Dropshipping Detector userscript, revision 0.6 (src/src/userscript.js). *)
(*                                                                         *)
(* One page load: the load listener runs detectEcommerce over the host     *)
(* page; on a positive verdict callAntidropAPI sends one request; the      *)
(* reply is handled by the promise chain, which may render a banner or an  *)
(* overlay; the user then drives the banner and overlay event handlers.    *)
(*                                                                         *)
(* Text is a sequence of one-character strings, so that includes(),        *)
(* toLowerCase() and the price regular expression are computed and not     *)
(* assumed.  The characters n-tilde, i-acute, the euro sign and the pound  *)
(* sign are written "n~", "i~", "EUR" and "GBP".                           *)
(***************************************************************************)
EXTENDS Integers, Sequences, FiniteSets, TLC

(***************************************************************************)
(* Bounds of the model.                                                    *)
(***************************************************************************)
\* most page fragments combined into one host page
MaxSignals == 2
\* most banner and overlay elements created during one page load
MaxElems == 5
\* most clicks on one banner's minimize control
MaxMinimize == 2
\* most exceptions counted in one page load
MaxErrors == 2

(***************************************************************************)
(* Program constants.                                                      *)
(***************************************************************************)
PROBABILITY_THRESHOLD_BANNER == 50
PROBABILITY_THRESHOLD_OVERLAY == 90

\* a mark is carried in thousandths, a probability in thousandths of a percent
Milli == 10 * 10 * 10

(***************************************************************************)
(* JavaScript values.                                                      *)
(***************************************************************************)
\* null / undefined / an absent attribute or field
NULL == <<"null">>

\* '' , the empty string
EmptyStr == <<>>

\* s || ''
OrEmpty(s) == IF s = NULL THEN EmptyStr ELSE s

\* truthiness of a string-or-null value
Truthy(s) == s # NULL /\ s # EmptyStr

\* String.prototype.includes
Includes(s, k) ==
  \E i \in 0..(Len(s) - Len(k)) : SubSeq(s, i + 1, i + Len(k)) = k

\* s?.includes(k)
OptIncludes(s, k) == s # NULL /\ Includes(s, k)

Uppers ==
  <<"A","B","C","D","E","F","G","H","I","J","K","L","M",
    "N","O","P","Q","R","S","T","U","V","W","X","Y","Z","N~","I~">>

Lowers ==
  <<"a","b","c","d","e","f","g","h","i","j","k","l","m",
    "n","o","p","q","r","s","t","u","v","w","x","y","z","n~","i~">>

LowerChar(c) ==
  IF \E i \in 1..Len(Uppers) : Uppers[i] = c
  THEN Lowers[CHOOSE i \in 1..Len(Uppers) : Uppers[i] = c]
  ELSE c

\* String.prototype.toLowerCase
toLowerCase(s) == [i \in 1..Len(s) |-> LowerChar(s[i])]

RECURSIVE Concat(_)
Concat(ss) == IF ss = <<>> THEN <<>> ELSE Head(ss) \o Concat(Tail(ss))

(***************************************************************************)
(* The host page: a flat list of the document's elements, the body's    *)
(* class list and the local storage.                                       *)
(***************************************************************************)
Node(tag, cls, action, href, name, content, src, text) ==
  [tag |-> tag, cls |-> cls, action |-> action, href |-> href,
   name |-> name, content |-> content, src |-> src, text |-> text]

FormNode(action, text) == Node("form", "", action, NULL, "", NULL, NULL, text)
LinkNode(href, text)   == Node("a", "", NULL, href, "", NULL, NULL, text)
DivNode(cls, text)     == Node("div", cls, NULL, NULL, "", NULL, NULL, text)
MetaNode(name, content) == Node("meta", "", NULL, NULL, name, content, NULL, <<>>)
ScriptNode(src)        == Node("script", "", NULL, NULL, "", NULL, src, <<>>)

\* document.querySelectorAll(tag)
querySelectorAll(page, tag) == SelectSeq(page.nodes, LAMBDA n : n.tag = tag)

\* innerText of one node: meta and script elements render no text; a block
\* element ends its line
NodeInnerText(n) ==
  CASE n.tag \in {"meta", "script"} -> <<>>
    [] n.tag = "a" -> n.text
    [] OTHER -> n.text \o <<"\n">>

\* document.body.innerText
BodyInnerText(page) ==
  Concat([i \in 1..Len(page.nodes) |-> NodeInnerText(page.nodes[i])])

\* localStorage.getItem(key)
getItem(page, key) ==
  IF \E e \in page.storage : e.key = key
  THEN (CHOOSE e \in page.storage : e.key = key).value
  ELSE NULL

checkoutKeywords ==
  << <<"c","h","e","c","k","o","u","t">>,
     <<"c","a","r","t">>,
     <<"a","d","d"," ","t","o"," ","c","a","r","t">>,
     <<"p","a","n","i","e","r">>,
     <<"c","o","m","m","a","n","d","e","r">>,
     <<"a","j","o","u","t","e","r"," ","a","u"," ","p","a","n","i","e","r">>,
     <<"w","a","r","e","n","k","o","r","b">>,
     <<"z","u","r"," ","k","a","s","s","e">>,
     <<"i","n"," ","d","e","n"," ","w","a","r","e","n","k","o","r","b">>,
     <<"c","a","r","r","i","t","o">>,
     <<"f","i","n","a","l","i","z","a","r"," ","c","o","m","p","r","a">>,
     <<"a","n~","a","d","i","r"," ","a","l"," ","c","a","r","r","i","t","o">>,
     <<"c","a","r","r","e","l","l","o">>,
     <<"p","r","o","c","e","d","i"," ","a","l"," ","p","a","g","a","m","e","n","t","o">>,
     <<"a","g","g","i","u","n","g","i"," ","a","l"," ","c","a","r","r","e","l","l","o">> >>
\* product keywords that include a cart keyword
productKeywords_withCart ==
  << <<"p","r","o","d","u","i","t">>, <<"c","a","r","t">> >>

productKeywords ==
  << <<"p","r","o","d","u","c","t">>,
     <<"i","t","e","m">>,
     <<"p","r","o","d","u","i","t">>,
     <<"a","r","t","i","c","l","e">>,
     <<"p","r","o","d","u","k","t">>,
     <<"a","r","t","i","k","e","l">>,
     <<"p","r","o","d","u","c","t","o">>,
     <<"a","r","t","i~","c","u","l","o">>,
     <<"p","r","o","d","o","t","t","o">>,
     <<"a","r","t","i","c","o","l","o">> >>
cartLinkKeywords ==
  << <<"c","a","r","t">>,
     <<"c","h","e","c","k","o","u","t">>,
     <<"p","a","n","i","e","r">>,
     <<"c","o","m","m","a","n","d","e","r">>,
     <<"w","a","r","e","n","k","o","r","b">>,
     <<"k","a","s","s","e">>,
     <<"c","a","r","r","i","t","o">>,
     <<"c","o","m","p","r","a","r">>,
     <<"c","a","r","r","e","l","l","o">>,
     <<"p","a","g","a","m","e","n","t","o">> >>

cartKeys ==
  <<"cart", "shoppingCart", "cartItems", "panier", "warenkorb", "carrito", "carrello">>

productGridClasses == {"product", "item", "product-card", "product-listing"}

s_woocommerce == <<"w","o","o","c","o","m","m","e","r","c","e">>
s_mage == <<"m","a","g","e">>
s_PrestaShop == <<"P","r","e","s","t","a","S","h","o","p">>
s_bigcommerce == <<"b","i","g","c","o","m","m","e","r","c","e">>
s_wixstores == <<"w","i","x","s","t","o","r","e","s">>
s_WixCom == <<"W","i","x",".","c","o","m">>
s_Squarespace == <<"S","q","u","a","r","e","s","p","a","c","e">>

(***************************************************************************)
(* The six detectors.                                                      *)
(***************************************************************************)
detectCheckoutForms(page) ==
  LET forms == querySelectorAll(page, "form") IN
  \E f \in 1..Len(forms) :
    LET action == OrEmpty(forms[f].action)
        text == toLowerCase(forms[f].text)
    IN \E k \in 1..Len(checkoutKeywords) :
         \/ Includes(action, checkoutKeywords[k])
         \/ Includes(text, checkoutKeywords[k])

detectProductListings(page) ==
  LET productGrids == SelectSeq(page.nodes, LAMBDA n : n.cls \in productGridClasses)
      bodyText == toLowerCase(BodyInnerText(page))
      productsDetected ==
        \E k \in 1..Len(productKeywords) : Includes(bodyText, productKeywords[k])
  IN Len(productGrids) > 3 \/ productsDetected

detectCartLink(page) ==
  LET links == querySelectorAll(page, "a") IN
  \E l \in 1..Len(links) :
    \E k \in 1..Len(cartLinkKeywords) :
      \/ Includes(toLowerCase(links[l].text), cartLinkKeywords[k])
      \/ OptIncludes(links[l].href, cartLinkKeywords[k])

\* the regular expression of detectPrices, matched as the engine matches it:
\* the positions at which a match that starts at i can end
IsDigit(c) == c \in {"0","1","2","3","4","5","6","7","8","9"}

DigitsAt(s, i, n) ==
  /\ i + n - 1 <= Len(s)
  /\ \A j \in i..(i + n - 1) : IsDigit(s[j])

\* \d{3}
IntEnds_threeDigits(s, i) == {i + n : n \in {m \in {3} : DigitsAt(s, i, m)}}

\* \d{1,3}
IntEnds(s, i) == {i + n : n \in {m \in 1..3 : DigitsAt(s, i, m)}}

\* "," is a literal comma, "\\." a literal dot; "." is the unescaped dot of the
\* euro alternative: any character but a line terminator
CharMatches(pat, c) ==
  CASE pat = "," -> c = ","
    [] pat = "\\." -> c = "."
    [] pat = "." -> c \notin {"\n", "\r"}

\* (sep \d{3})*
RECURSIVE GroupStar(_, _, _)
GroupStar(s, ends, sep) ==
  LET more == {e + 4 : e \in {p \in ends : /\ p <= Len(s)
                                           /\ CharMatches(sep, s[p])
                                           /\ DigitsAt(s, p + 1, 3)}}
  IN IF more \subseteq ends THEN ends ELSE GroupStar(s, ends \cup more, sep)

\* (dec \d{2})?
DecimalOpt(s, ends, dec) ==
  ends \cup {e + 3 : e \in {p \in ends : /\ p <= Len(s)
                                         /\ CharMatches(dec, s[p])
                                         /\ DigitsAt(s, p + 1, 2)}}

AmountEnds(s, i, symbol, sep, dec) ==
  IF i <= Len(s) /\ s[i] = symbol
  THEN DecimalOpt(s, GroupStar(s, IntEnds(s, i + 1), sep), dec)
  ELSE {}

\* priceRegex.test(s)
priceRegexTest(s) ==
  \E i \in 1..Len(s) :
    \/ AmountEnds(s, i, "$", ",", "\\.") # {}
    \/ AmountEnds(s, i, "EUR", ".", ",") # {}
    \/ AmountEnds(s, i, "GBP", ",", "\\.") # {}

detectPrices(page) == priceRegexTest(BodyInnerText(page))

detectCartInLocalStorage(page) ==
  \E k \in 1..Len(cartKeys) : Truthy(getItem(page, cartKeys[k]))

\* document.querySelector('meta[name="..."]')
HasMetaNamed(page, name) ==
  \E i \in 1..Len(page.nodes) :
    page.nodes[i].tag = "meta" /\ page.nodes[i].name = name

\* document.querySelector('meta[name="generator"][content*="..."]')
HasGeneratorMeta(page, part) ==
  \E i \in 1..Len(page.nodes) :
    /\ page.nodes[i].tag = "meta"
    /\ page.nodes[i].name = "generator"
    /\ OptIncludes(page.nodes[i].content, part)

\* document.querySelector('meta[content*="..."]')
HasMetaContent(page, part) ==
  \E i \in 1..Len(page.nodes) :
    page.nodes[i].tag = "meta" /\ OptIncludes(page.nodes[i].content, part)

\* document.querySelector('script[src*="..."]')
HasScriptSrc(page, part) ==
  \E i \in 1..Len(page.nodes) :
    page.nodes[i].tag = "script" /\ OptIncludes(page.nodes[i].src, part)

\* the null that detectEcommercePlatform returns when no platform matches
\* (reasons are atomic strings in the model)
NoPlatform == "null"

\* the matched platform's reason, or null; the first match wins
detectEcommercePlatform(page) ==
  IF HasMetaNamed(page, "shopify-checkout-api-token")
  THEN "Shopify platform detected"
  ELSE IF HasScriptSrc(page, s_woocommerce)
  THEN "WooCommerce platform detected"
  ELSE IF HasScriptSrc(page, s_mage) \/ "cms-index-index" \in page.bodyClasses
  THEN "Magento platform detected"
  ELSE IF HasGeneratorMeta(page, s_PrestaShop)
  THEN "PrestaShop platform detected"
  ELSE IF HasScriptSrc(page, s_bigcommerce)
  THEN "BigCommerce platform detected"
  ELSE IF HasScriptSrc(page, s_wixstores) \/ HasMetaContent(page, s_WixCom)
  THEN "Wix platform detected"
  ELSE IF HasGeneratorMeta(page, s_Squarespace)
  THEN "Squarespace Commerce platform detected"
  ELSE NoPlatform

\* detectCartInLocalStorage throws: the localStorage getter raises
detectCartInLocalStorageThrows(page) == page.storageDenied

\* detectEcommerce throws out of the load listener before it has a verdict
detectEcommerceThrows(page) == detectCartInLocalStorageThrows(page)

\* detectEcommerce up to its verdict: the reasons pushed and the flag set, in
\* the order of the six if-statements
PushIf_prepend(acc, fired, reason) ==
  IF fired
  THEN [isEcommerce |-> TRUE, reasons |-> <<reason>> \o acc.reasons]
  ELSE acc

PushIf(acc, fired, reason) ==
  IF fired
  THEN [isEcommerce |-> TRUE, reasons |-> Append(acc.reasons, reason)]
  ELSE acc

detectEcommerceVerdict(page) ==
  LET r0 == [isEcommerce |-> FALSE, reasons |-> <<>>]
      r1 == PushIf(r0, detectCheckoutForms(page), "Checkout or cart form detected")
      r2 == PushIf(r1, detectProductListings(page),
                   "Multiple product listings detected (CSS class-based detection)")
      r3 == PushIf(r2, detectCartLink(page), "Cart link detected")
      r4 == PushIf(r3, detectPrices(page), "Product price detected")
      r5 == PushIf(r4, detectCartInLocalStorage(page), "Cart data found in localStorage")
      platformReason == detectEcommercePlatform(page)
      r6 == PushIf(r5, platformReason # NoPlatform, platformReason)
  IN r6

(***************************************************************************)
(* Host pages.  A page is put together from fragments, each of which       *)
(* carries the trigger condition of one detector.                          *)
(***************************************************************************)
t_panier == <<"/","p","a","n","i","e","r">>
t_cart   == <<"/","c","a","r","t">>
t_price  == <<"$","5">>
t_json   == <<"[","]">>
t_wooSrc == <<"/","w","o","o","c","o","m","m","e","r","c","e",".","j","s">>

FragmentOrder ==
  <<"form", "grid", "link", "price", "storage", "shopify", "woocommerce", "magento">>

FragmentNodes(f) ==
  CASE f = "form"  -> <<FormNode(t_panier, <<>>)>>
    [] f = "grid"  -> <<DivNode("item", <<>>), DivNode("item", <<>>),
                        DivNode("product", <<>>), DivNode("product-card", <<>>)>>
    [] f = "link"  -> <<LinkNode(t_cart, <<>>)>>
    [] f = "price" -> <<DivNode("", t_price)>>
    [] f = "shopify" -> <<MetaNode("shopify-checkout-api-token", NULL)>>
    [] f = "woocommerce" -> <<ScriptNode(t_wooSrc)>>
    [] OTHER -> <<>>

FragmentStorage(f) ==
  IF f = "storage" THEN {[key |-> "cart", value |-> t_json]} ELSE {}

FragmentBodyClasses(f) ==
  IF f = "magento" THEN {"cms-index-index"} ELSE {}

PageOf(F) ==
  [nodes |-> Concat([i \in 1..Len(FragmentOrder) |->
                       IF FragmentOrder[i] \in F
                       THEN FragmentNodes(FragmentOrder[i]) ELSE <<>>]),
   bodyClasses |-> UNION {FragmentBodyClasses(f) : f \in F},
   storage |-> UNION {FragmentStorage(f) : f \in F},
   storageDenied |-> "denied" \in F]

\* one fragment per detector
SignalFragments == {"form", "grid", "link", "price", "storage", "shopify"}

FragmentSets == {F \in SUBSET SignalFragments : Cardinality(F) <= MaxSignals}

\* pages with the other platform fragments, alone and behind an earlier match
PlatformPages ==
  {PageOf({"woocommerce"}), PageOf({"magento"}), PageOf({"woocommerce", "magento"})}

\* pages on which reading window.localStorage raises a SecurityError (storage
\* blocked by the browser's settings or by a sandbox)
DeniedPages == {PageOf({"denied"}), PageOf({"form", "denied"})}

\* a page of the given elements, and a page of the given local storage
NodesPage(nodes) == [PageOf({}) EXCEPT !.nodes = nodes]
StoragePage(entries) == [PageOf({}) EXCEPT !.storage = entries]

t_addToCart == <<"A","d","d"," ","t","o"," ","c","a","r","t">>
t_produits == <<"N","o","s"," ","p","r","o","d","u","i","t","s">>
t_monPanier == <<"M","o","n"," ","P","a","n","i","e","r">>

\* minimal pages: each has the trigger condition of one detector and nothing
\* else; MinimalPages[d] are those of the d-th detector
MinimalPages ==
  << {PageOf({"form"}), NodesPage(<<FormNode(NULL, t_addToCart)>>)},
     {PageOf({"grid"}), NodesPage(<<DivNode("", t_produits)>>)},
     {PageOf({"link"}), NodesPage(<<LinkNode(NULL, t_monPanier)>>)},
     {PageOf({"price"})},
     {PageOf({"storage"})},
     {PageOf({"shopify"}), PageOf({"woocommerce"}), PageOf({"magento"})} >>

\* local storage with one entry: a cart key with an empty value (a cart that
\* was emptied), another cart key, and a key that is not a cart key
StoragePages ==
  { StoragePage({[key |-> "cart", value |-> EmptyStr]}),
    StoragePage({[key |-> "carrello", value |-> t_json]}),
    StoragePage({[key |-> "theme", value |-> t_json]}) }

\* a page whose visible text is the given line
TextPage(text) == NodesPage(<<DivNode("", text)>>)

\* amounts: $1,234.56 and EUR1.234,56 (grouped, with decimals), $1234 (not
\* grouped), $1,23 (a group of two digits), "$ 5" (symbol and number apart),
\* 12,50 EUR (symbol after the number), 1,234.56 (no symbol)
PricePages ==
  { TextPage(<<"$","1",",","2","3","4",".","5","6">>),
    TextPage(<<"EUR","1",".","2","3","4",",","5","6">>),
    TextPage(<<"$","1","2","3","4">>),
    TextPage(<<"$","1",",","2","3">>),
    TextPage(<<"$"," ","5">>),
    TextPage(<<"1","2",",","5","0"," ","EUR">>),
    TextPage(<<"1",",","2","3","4",".","5","6">>) }

Pages ==
  {PageOf(F) : F \in FragmentSets} \cup PlatformPages \cup DeniedPages
  \cup UNION {MinimalPages[d] : d \in 1..6} \cup StoragePages \cup PricePages

\* the page without any signal, the page of the end-to-end scenario (a form
\* whose action is /panier) and the latter with its storage blocked
CorePages == {PageOf({}), PageOf({"form"}), PageOf({"form", "denied"})}

(***************************************************************************)
(* The reply of the scoring service.  An optional JSON value is a sequence *)
(* of length 0 (absent, null) or 1 (present).                              *)
(***************************************************************************)
None == <<>>
Some(v) == <<v>>

\* x ?? d
Coalesce(x, d) == IF x = None THEN d ELSE x[1]

Url(absolute, labels) == [absolute |-> absolute, hostname |-> labels]

Article(url, images) == [url |-> url, images |-> images]

Techno(name, description) == [name |-> name, description |-> description]

a_shopA == Some(Article(Some(Url(TRUE, <<"a", "shop", "co", "uk">>)), Some(<<"i1">>)))
a_shopB == Some(Article(Some(Url(TRUE, <<"b", "shop", "co", "uk">>)), Some(<<"i2">>)))
a_example == Some(Article(Some(Url(TRUE, <<"x", "example", "com">>)), Some(<<>>)))
a_shopAu == Some(Article(Some(Url(TRUE, <<"www", "shop", "com", "au">>)), Some(<<"i3">>)))
a_apex == Some(Article(Some(Url(TRUE, <<"example", "com">>)), Some(<<"i4">>)))
a_noImages == Some(Article(Some(Url(TRUE, <<"x", "example", "com">>)), None))
a_noUrl == Some(Article(None, Some(<<"i1">>)))
a_relativeUrl == Some(Article(Some(Url(FALSE, <<>>)), Some(<<"i1">>)))

tech_full == Some(Techno(Some("Shopify"), Some("hosted shop")))
tech_bare == Some(Techno(None, None))

\* the fields of the reply besides mark
p_absent ==
  [website |-> None, similarArticles |-> None, lastSearchDate |-> None]
p_empty ==
  [website |-> Some([technos |-> None]), similarArticles |-> Some(<<>>),
   lastSearchDate |-> Some("2024-10-01")]
p_full ==
  [website |-> Some([technos |-> Some(<<tech_full, tech_bare>>)]),
   similarArticles |-> Some(<<a_shopA, a_shopB, a_example>>),
   lastSearchDate |-> Some("2024-10-01")]
p_mixed ==
  [website |-> None,
   similarArticles |-> Some(<<a_example, a_shopA, a_apex, a_shopAu, a_shopB>>),
   lastSearchDate |-> None]
p_noImages ==
  [website |-> Some([technos |-> Some(<<tech_full>>)]),
   similarArticles |-> Some(<<a_shopA, a_noImages>>), lastSearchDate |-> None]
p_noUrl ==
  [website |-> None, similarArticles |-> Some(<<a_noUrl>>), lastSearchDate |-> None]
p_relativeUrl ==
  [website |-> None, similarArticles |-> Some(<<a_relativeUrl>>),
   lastSearchDate |-> None]
p_nullTechno ==
  [website |-> Some([technos |-> Some(<<tech_full, None>>)]),
   similarArticles |-> None, lastSearchDate |-> None]

Payloads ==
  {p_absent, p_empty, p_full, p_mixed, p_noImages, p_noUrl, p_relativeUrl,
   p_nullTechno}

\* marks, in thousandths: absent, 0, negative, 1, 2.475, 2.5, 3, 4.495, 4.5, 5, 6
Marks ==
  {None} \cup {Some(m) : m \in {0, -1000, 1000, 2475, 2500, 3000, 4495, 4500, 5000, 6000}}

DataOf(mark, payload) ==
  [mark |-> mark, website |-> payload.website,
   similarArticles |-> payload.similarArticles,
   lastSearchDate |-> payload.lastSearchDate]

\* transport: whether fetch resolves; ok: whether the status is 2xx; json:
\* whether the body parses; data: the parsed body (None is the JSON null)
Reply(transport, ok, json, data) ==
  [transport |-> transport, ok |-> ok, json |-> json, data |-> data]

Responses ==
  {Reply(FALSE, FALSE, FALSE, None)}
  \cup {Reply(TRUE, ok, FALSE, None) : ok \in BOOLEAN}
  \cup {Reply(TRUE, ok, TRUE, None) : ok \in BOOLEAN}
  \cup {Reply(TRUE, ok, TRUE, Some(DataOf(m, p))) :
          ok \in BOOLEAN, m \in Marks, p \in Payloads}

\* a failed request, a body that is not JSON, a reply that is not flagged and
\* the reply of the end-to-end scenario ({mark: 3})
CoreResponses ==
  { Reply(FALSE, FALSE, FALSE, None),
    Reply(TRUE, TRUE, FALSE, None),
    Reply(TRUE, TRUE, TRUE, Some(DataOf(Some(0), p_absent))),
    Reply(TRUE, TRUE, TRUE, Some(DataOf(Some(3000), p_absent))) }

(***************************************************************************)
(* The presenter.                                                          *)
(***************************************************************************)
\* the probability of the whole marks only
Probability_wholeMarks(mark) == (mark \div Milli) * (100 \div 5) * Milli

\* (mark / 5) * 100, in thousandths of a percent
Probability(mark) == (mark * 100) \div 5

\* revision 0.5's rule: one threshold, a banner up to it and the overlay above
showDropshippingWarning_oneThreshold(mark) ==
  IF Probability(mark) <= 49 * Milli THEN "Banner" ELSE "Overlay"

showDropshippingWarning_exclusive(mark) ==
  LET probability == Probability(mark) IN
  IF probability <= PROBABILITY_THRESHOLD_BANNER * Milli
  THEN "Suppressed"
  ELSE IF probability <= PROBABILITY_THRESHOLD_OVERLAY * Milli
  THEN "Banner"
  ELSE "Overlay"

\* the overlay from the banner threshold on
showDropshippingWarning_overlayFromBanner(mark) ==
  IF Probability(mark) < PROBABILITY_THRESHOLD_BANNER * Milli
  THEN "Suppressed"
  ELSE "Overlay"

\* the branch showDropshippingWarning takes
showDropshippingWarning(mark) ==
  LET probability == Probability(mark) IN
  IF probability < PROBABILITY_THRESHOLD_BANNER * Milli
  THEN "Suppressed"
  ELSE IF /\ probability >= PROBABILITY_THRESHOLD_BANNER * Milli
          /\ probability < PROBABILITY_THRESHOLD_OVERLAY * Milli
  THEN "Banner"
  ELSE IF probability >= PROBABILITY_THRESHOLD_OVERLAY * Milli
  THEN "Overlay"
  ELSE "Suppressed"

\* data && data.mark > 0
Flagged(data) ==
  /\ data # None
  /\ data[1].mark # None
  /\ data[1].mark[1] > 0

\* the arguments the then-callback passes on, with their defaults
ArgsOf(data) ==
  [mark |-> IF data = None THEN 0 ELSE Coalesce(data[1].mark, 0),
   technos |-> IF data = None \/ data[1].website = None
               THEN <<>> ELSE Coalesce(data[1].website[1].technos, <<>>),
   similarArticles |-> IF data = None THEN <<>>
                       ELSE Coalesce(data[1].similarArticles, <<>>),
   lastSearchDate |-> IF data = None THEN None ELSE data[1].lastSearchDate]

\* revision 0.5's selection without the guard on mark
thenSelects_unguarded(data) ==
  IF data = None
  THEN "None"
  ELSE IF Probability(ArgsOf(data).mark) <= 49 * Milli THEN "Banner" ELSE "Overlay"

\* the then-callback's decision: "None" when the reply is not flagged, else
\* the branch showDropshippingWarning takes on the defaulted mark
thenSelects(data) ==
  IF Flagged(data) THEN showDropshippingWarning(ArgsOf(data).mark) ELSE "None"

\* new URL(url) throws a TypeError
UrlThrows(url) == url = None \/ ~url[1].absolute

\* getArticlesList throws a TypeError: getApexDomain(article.url) on an absent
\* article or an absent or relative url, article.images[0] on absent images
getArticlesListThrows(similarArticles) ==
  \E i \in 1..Len(similarArticles) :
    \/ similarArticles[i] = None
    \/ UrlThrows(similarArticles[i][1].url)
    \/ similarArticles[i][1].images = None

\* the technos loop throws a TypeError: tech.name on an absent techno
TechnosThrow(technos) == \E i \in 1..Len(technos) : technos[i] = None

\* showFullScreenWarning throws before it appends the overlay
showFullScreenWarningThrows(args) ==
  \/ (Len(args.technos) > 0 /\ TechnosThrow(args.technos))
  \/ (Len(args.similarArticles) > 0 /\ getArticlesListThrows(args.similarArticles))

\* what showDropshippingWarning passes to the two warnings
WarningArgs(a) ==
  [probability |-> Probability(a.mark), technos |-> a.technos,
   similarArticles |-> a.similarArticles, lastSearchDate |-> a.lastSearchDate]

Reverse(s) == [i \in 1..Len(s) |-> s[Len(s) + 1 - i]]

\* getApexDomain with the last two labels in every case
getApexDomain_twoLabels(url) ==
  LET parts == Reverse(url.hostname)
  IN <<IF Len(parts) >= 2 THEN parts[2] ELSE "undefined", parts[1]>>

\* getApexDomain on a url that new URL accepts: the labels of its result; the
\* source's parts[0], parts[1], parts[2] are parts[1], parts[2], parts[3] here
getApexDomain(url) ==
  LET parts == Reverse(url.hostname)
  IN IF Len(parts) >= 3 /\ (parts[2] = "co" \/ parts[2] = "com")
     THEN <<parts[3], parts[2], parts[1]>>
     ELSE <<IF Len(parts) >= 2 THEN parts[2] ELSE "undefined", parts[1]>>

\* groupedArticles after the articles from the i-th on are added: the keys in
\* insertion order, each with the input positions of its articles
RECURSIVE groupArticles(_, _, _)
groupArticles(similarArticles, i, grouped) ==
  IF i > Len(similarArticles)
  THEN grouped
  ELSE LET apexDomain == getApexDomain(similarArticles[i][1].url[1])
           at == {g \in 1..Len(grouped) : grouped[g].domain = apexDomain}
           created == IF at = {}
                      THEN Append(grouped, [domain |-> apexDomain, articles |-> <<>>])
                      ELSE grouped
           g == CHOOSE k \in 1..Len(created) : created[k].domain = apexDomain
       IN groupArticles(similarArticles, i + 1,
                        [created EXCEPT ![g].articles = Append(@, i)])

\* the domain groups getArticlesList renders, in the order of Object.keys
getArticlesList(similarArticles) == groupArticles(similarArticles, 1, <<>>)

\* the elements the presenter creates; a banner carries its style, the number
\* of mouseenter / mouseleave / click listener triples on it and the number of
\* click listeners on its "viewDetails" link; both carry the probability of
\* their text, an overlay the groups of its articles section
NewBanner(w) ==
  [kind |-> "banner", id |-> "", height |-> "", opacity |-> "",
   fontSize |-> "16px", padding |-> "10px 20px", listeners |-> 0, details |-> 0,
   probability |-> w.probability, groups |-> <<>>]

NewOverlay(w) ==
  [kind |-> "overlay", id |-> "", height |-> "100vh", opacity |-> "",
   fontSize |-> "16px", padding |-> "20px", listeners |-> 0, details |-> 0,
   probability |-> w.probability,
   groups |-> IF Len(w.similarArticles) > 0
              THEN getArticlesList(w.similarArticles) ELSE <<>>]

\* the presenter's part of the document: elems[i] is the i-th element created,
\* doc the elements attached to the body in document order, keydown the
\* overlays of the document's keydown listeners
UI(e, d, k) == [elems |-> e, doc |-> d, keydown |-> k]

InDoc(d, kind, e) == {i \in 1..Len(d) : e[d[i]].kind = kind}

\* document.getElementById(id) finds an element: the presenter's elements are
\* searched in document order (the host pages of the model use neither id)
getElementByIdFinds(ui, id) ==
  \E i \in 1..Len(ui.doc) :
    \/ ui.elems[ui.doc[i]].id = id
    \/ (id = "viewDetails" /\ ui.elems[ui.doc[i]].kind = "banner")

\* the banner whose link document.getElementById('viewDetails') returns: the
\* first one in document order
FirstViewDetails(ui) ==
  ui.doc[CHOOSE i \in 1..Len(ui.doc) :
           /\ ui.elems[ui.doc[i]].kind = "banner"
           /\ \A j \in 1..(i - 1) : ui.elems[ui.doc[j]].kind # "banner"]

showTopBannerWarning(ui, w) ==
  LET banner == Len(ui.elems) + 1
      appended == UI(Append(ui.elems, NewBanner(w)), Append(ui.doc, banner), ui.keydown)
      link == FirstViewDetails(appended)
  IN UI([appended.elems EXCEPT ![link].details = @ + 1], appended.doc, appended.keydown)

\* showFullScreenWarning when it does not throw
showFullScreenWarning(ui, w) ==
  LET overlay == Len(ui.elems) + 1
  IN UI(Append(ui.elems, NewOverlay(w)), Append(ui.doc, overlay),
        Append(ui.keydown, overlay))

\* element.remove()
Remove(d, e) == SelectSeq(d, LAMBDA x : x # e)

\* the click listener of the minimize button
minimizeListener(b) ==
  [b EXCEPT !.height = "4px", !.opacity = "0.5", !.listeners = @ + 1]

\* the mouseenter listener and the click listener of a banner
restoreListener(b) ==
  [b EXCEPT !.height = "auto", !.fontSize = "16px", !.padding = "10px 20px",
            !.opacity = "1"]

\* the mouseleave listener of a banner
shrinkListener(b) ==
  [b EXCEPT !.height = "20px", !.fontSize = "12px", !.padding = "2px 10px",
            !.opacity = "0.5"]

\* click listeners that toggle instead of restoring
BubbleClick_toggle(b) ==
  IF b.listeners > 0 /\ b.listeners % 2 = 1 THEN restoreListener(b) ELSE b

\* a click that bubbles up to the banner runs the banner's click listeners,
\* those added earlier in the same dispatch included
BubbleClick(b) == IF b.listeners > 0 THEN restoreListener(b) ELSE b

\* the overlay-close listener: overlay.remove(), then the banner is recreated
\* when no element has the id "dropshippingBanner"
overlayCloseListener(ui, overlay, w) ==
  LET removed == UI(ui.elems, Remove(ui.doc, overlay), ui.keydown)
  IN IF ~getElementByIdFinds(removed, "dropshippingBanner")
     THEN showTopBannerWarning(removed, w)
     ELSE removed

\* keydown listeners that empty the presenter's part of the body
escapeListeners_clearsBody(ui) == UI(ui.elems, <<>>, ui.keydown)

\* the document's keydown listeners on Escape: each removes its overlay
escapeListeners(ui) ==
  UI(ui.elems,
     SelectSeq(ui.doc, LAMBDA x : \A i \in 1..Len(ui.keydown) : ui.keydown[i] # x),
     ui.keydown)

\* the "viewDetails" click listeners of a banner, run n times
RECURSIVE viewDetailsListeners(_, _, _)
viewDetailsListeners(ui, n, w) ==
  IF n = 0 THEN ui ELSE viewDetailsListeners(showFullScreenWarning(ui, w), n - 1, w)

\* the application/x-www-form-urlencoded serializer: letters, digits and
\* * - . _ are kept, a space becomes +, every other character its percent code
PercentCodes ==
  { <<":", <<"%","3","A">> >>, <<"/", <<"%","2","F">> >>, <<"?", <<"%","3","F">> >>,
    <<"=", <<"%","3","D">> >>, <<"&", <<"%","2","6">> >>, <<"%", <<"%","2","5">> >>,
    <<"+", <<"%","2","B">> >>, <<"#", <<"%","2","3">> >> }

formEncodeChar(c) ==
  IF c = " " THEN <<"+">>
  ELSE IF \E e \in PercentCodes : e[1] = c
  THEN (CHOOSE e \in PercentCodes : e[1] = c)[2]
  ELSE <<c>>

formEncode(s) == Concat([i \in 1..Len(s) |-> formEncodeChar(s[i])])

\* a body put together without encoding the values
URLSearchParams_toString_raw(params) ==
  Concat([i \in 1..Len(params) |->
            (IF i > 1 THEN <<"&">> ELSE <<>>) \o params[i][1] \o <<"=">> \o params[i][2]])

\* URLSearchParams.prototype.toString on the list of appended pairs
URLSearchParams_toString(params) ==
  Concat([i \in 1..Len(params) |->
            (IF i > 1 THEN <<"&">> ELSE <<>>)
            \o formEncode(params[i][1]) \o <<"=">> \o formEncode(params[i][2])])

\* the second argument of fetch, for the page address read at line 82
fetchInit(currentUrl) ==
  [method |-> "POST",
   contentType |-> "application/x-www-form-urlencoded",
   body |-> URLSearchParams_toString(
              << <<<<"l","g">>, <<"f","r">>>>, <<<<"u","r","l">>, currentUrl>> >>)]

\* a detector that records its finding in local storage
PageAfterDetection_setsItem(p) ==
  [p EXCEPT !.storage = @ \cup {[key |-> "dropshippingDetector", value |-> t_json]}]

\* the host page after detectEcommerce: the detectors call querySelectorAll,
\* querySelector and getItem and read action, innerText, href, className and
\* classList; none of them writes
PageAfterDetection(p) == p

CallsApi_always(verdictOfPage) == TRUE

\* detectEcommerce calls callAntidropAPI
CallsApi(verdictOfPage) == verdictOfPage.isEcommerce

(***************************************************************************)
(* State.                                                                  *)
(***************************************************************************)
VARIABLES
  page,        \* the host page: its elements, body classes and local storage
  server,      \* the reply the scoring service gives to a request
  pc,          \* how far the pipeline of this page load has come
  verdict,     \* isEcommerce and reasons once detectEcommerce has decided
  requests,    \* number of requests sent to the scoring endpoint
  logs,        \* the console entries written
  tier,        \* the branch showDropshippingWarning took
  elems,       \* the banner and overlay elements created so far
  doc,         \* those attached to the document body, in document order
  keydown,     \* the overlays of the document's keydown listeners
  hostErrors,  \* exceptions that escaped into the host page
  location,    \* window.location.href
  sentUrl,     \* currentUrl, the url of the request's body, once it is sent
  request      \* the arguments of fetch, once it is called

vars ==
  <<page, server, pc, verdict, requests, logs, tier, elems, doc, keydown, hostErrors,
    location, sentUrl, request>>

ui == UI(elems, doc, keydown)

SetUI(next) ==
  /\ elems' = next.elems
  /\ doc' = next.doc
  /\ keydown' = next.keydown

args == ArgsOf(server.data)

warning == WarningArgs(args)

Banners == InDoc(doc, "banner", elems)
Overlays == InDoc(doc, "overlay", elems)

\* the addresses the page takes: the one it is loaded at, and one it moves to
\* through the history API without a reload
LoadedAt ==
  <<"h","t","t","p","s",":","/","/","b","o","u","t","i","q","u","e",".","e","x","a",
    "m","p","l","e","/","?","p","=","1","&","c","=","2">>
Locations ==
  { LoadedAt,
    <<"h","t","t","p","s",":","/","/","b","o","u","t","i","q","u","e",".","e","x","a",
      "m","p","l","e","/","p","r","o","d","u","i","t">> }

InitOf(pages, responses) ==
  /\ page \in pages
  /\ server \in responses
  /\ pc = "Idle"
  /\ verdict = None
  /\ requests = 0
  /\ logs = <<>>
  /\ tier = "None"
  /\ elems = <<>>
  /\ doc = <<>>
  /\ keydown = <<>>
  /\ hostErrors = 0
  /\ location = LoadedAt
  /\ sentUrl = None
  /\ request = None

\* the presenter's cases: every reply, on the page without a signal and on the
\* page with a /panier form
Init == InitOf(CorePages, Responses)

\* the aggregator's cases: every page, with three replies
InitDetect == InitOf(Pages, CoreResponses)

(***************************************************************************)
(* The pipeline.                                                           *)
(***************************************************************************)
\* the load listener: detectEcommerce, and callAntidropAPI up to fetch; an
\* exception of a detector leaves the listener uncaught
Load ==
  /\ pc = "Idle"
  /\ page' = PageAfterDetection(page)
  /\ IF detectEcommerceThrows(page)
     THEN /\ pc' = "DetectThrew"
          /\ hostErrors' = hostErrors + 1
          /\ UNCHANGED <<verdict, logs, requests, sentUrl, request>>
     ELSE LET v == detectEcommerceVerdict(page) IN
            /\ verdict' = Some(v)
            /\ UNCHANGED hostErrors
            /\ IF CallsApi(v)
               THEN /\ logs' = logs \o <<"debug: E-commerce detected.",
                                         "debug: Sending request to Antidrop API.">>
                    /\ requests' = requests + 1
                    /\ sentUrl' = Some(location)
                    /\ request' = Some(fetchInit(location))
                    /\ pc' = "Scanning"
               ELSE /\ pc' = "NotEcommerce"
                    /\ UNCHANGED <<logs, requests, sentUrl, request>>
  /\ UNCHANGED <<server, location, tier, elems, doc, keydown>>

\* a catch callback that sends the request again
Catch_retry ==
  /\ logs' = Append(logs, "error: API request failed:")
  /\ pc' = "Scanning"
  /\ requests' = requests + 1

\* the catch callback: it logs, and sends nothing
Catch ==
  /\ logs' = Append(logs, "error: API request failed:")
  /\ pc' = "Failed"
  /\ requests' = requests

\* fetch rejects: the request failed in transport
FetchRejects ==
  /\ pc = "Scanning"
  /\ ~server.transport
  /\ Catch
  /\ UNCHANGED <<page, server, location, sentUrl, request, verdict, tier, elems, doc, keydown,
                 hostErrors>>

\* response.json() rejects: the body is not JSON
JsonRejects ==
  /\ pc = "Scanning"
  /\ server.transport
  /\ ~server.json
  /\ Catch
  /\ UNCHANGED <<page, server, location, sentUrl, request, verdict, tier, elems, doc, keydown,
                 hostErrors>>

\* the then-callback on the parsed body; an exception thrown while the overlay
\* is built is caught by the catch callback
DataArrives ==
  /\ pc = "Scanning"
  /\ server.transport
  /\ server.json
  /\ LET selected == thenSelects(server.data)
         detected == Append(logs, "debug: Dropshipping site detected.")
     IN CASE selected = "None" ->
               /\ logs' = Append(logs, "debug: No dropshipping detected.")
               /\ pc' = "NotFlagged"
               /\ UNCHANGED <<tier, elems, doc, keydown>>
          [] selected = "Suppressed" ->
               /\ tier' = selected
               /\ logs' = Append(detected,
                    "debug: Probability below threshold, no warning displayed.")
               /\ pc' = "Scored"
               /\ UNCHANGED <<elems, doc, keydown>>
          [] selected = "Banner" ->
               /\ tier' = selected
               /\ logs' = detected
               /\ pc' = "Scored"
               /\ SetUI(showTopBannerWarning(ui, warning))
          [] selected = "Overlay" ->
               /\ tier' = selected
               /\ IF showFullScreenWarningThrows(args)
                  THEN /\ logs' = Append(detected, "error: API request failed:")
                       /\ pc' = "Failed"
                       /\ UNCHANGED <<elems, doc, keydown>>
                  ELSE /\ logs' = detected
                       /\ pc' = "Scored"
                       /\ SetUI(showFullScreenWarning(ui, warning))
  /\ UNCHANGED <<page, server, verdict, requests, hostErrors, location, sentUrl, request>>

\* the page changes its address without a reload while the request is in
\* flight; window.location.href is read once, before the request
Navigate ==
  /\ pc = "Scanning"
  /\ location' \in Locations \ {location}
  /\ UNCHANGED <<page, server, pc, verdict, requests, logs, tier, elems, doc, keydown,
                 hostErrors, sentUrl, request>>

(***************************************************************************)
(* The user's events.  An event is dispatched to any element attached to   *)
(* the document (pointer or keyboard); each action is one whole dispatch.  *)
(***************************************************************************)
\* a click on the "Reduire" button of banner b: the button's listener, then
\* the banner's click listeners as the event bubbles
ClickMinimize(b) ==
  /\ b \in {doc[i] : i \in Banners}
  /\ elems[b].listeners < MaxMinimize
  /\ elems' = [elems EXCEPT ![b] = BubbleClick(minimizeListener(@))]
  /\ UNCHANGED <<page, server, pc, verdict, requests, logs, tier, doc, keydown, hostErrors,
                 location, sentUrl, request>>

MouseEnter(b) ==
  /\ b \in {doc[i] : i \in Banners}
  /\ elems[b].listeners > 0
  /\ elems' = [elems EXCEPT ![b] = restoreListener(@)]
  /\ UNCHANGED <<page, server, pc, verdict, requests, logs, tier, doc, keydown, hostErrors,
                 location, sentUrl, request>>

MouseLeave(b) ==
  /\ b \in {doc[i] : i \in Banners}
  /\ elems[b].listeners > 0
  /\ elems' = [elems EXCEPT ![b] = shrinkListener(@)]
  /\ UNCHANGED <<page, server, pc, verdict, requests, logs, tier, doc, keydown, hostErrors,
                 location, sentUrl, request>>

\* a click on the banner itself, outside its link and its button
ClickBanner(b) ==
  /\ b \in {doc[i] : i \in Banners}
  /\ elems[b].listeners > 0
  /\ elems' = [elems EXCEPT ![b] = BubbleClick(@)]
  /\ UNCHANGED <<page, server, pc, verdict, requests, logs, tier, doc, keydown, hostErrors,
                 location, sentUrl, request>>

\* a click on the "Voir les details" link of banner b: the link's listeners,
\* each of which calls showFullScreenWarning, then the banner's click listeners
ClickViewDetails(b) ==
  /\ b \in {doc[i] : i \in Banners}
  /\ LET n == elems[b].details IN
       IF showFullScreenWarningThrows(args)
       THEN /\ hostErrors + n <= MaxErrors
            /\ hostErrors' = hostErrors + n
            /\ SetUI(UI([elems EXCEPT ![b] = BubbleClick(@)], doc, keydown))
       ELSE /\ Len(elems) + n <= MaxElems
            /\ LET opened == viewDetailsListeners(ui, n, warning) IN
                 SetUI(UI([opened.elems EXCEPT ![b] = BubbleClick(@)],
                          opened.doc, opened.keydown))
            /\ UNCHANGED hostErrors
  /\ UNCHANGED <<page, server, pc, verdict, requests, logs, tier, location, sentUrl, request>>

\* a click on the "Fermer" button of overlay o
ClickOverlayClose(o) ==
  /\ o \in {doc[i] : i \in Overlays}
  /\ Len(elems) < MaxElems
  /\ SetUI(overlayCloseListener(ui, o, warning))
  /\ UNCHANGED <<page, server, pc, verdict, requests, logs, tier, hostErrors,
                 location, sentUrl, request>>

\* the Escape key, once the document has keydown listeners
PressEscape ==
  /\ Len(keydown) > 0
  /\ SetUI(escapeListeners(ui))
  /\ UNCHANGED <<page, server, pc, verdict, requests, logs, tier, hostErrors,
                 location, sentUrl, request>>

Next ==
  \/ Load
  \/ FetchRejects
  \/ JsonRejects
  \/ DataArrives
  \/ Navigate
  \/ \E e \in 1..Len(elems) : ClickMinimize(e)
  \/ \E e \in 1..Len(elems) : MouseEnter(e)
  \/ \E e \in 1..Len(elems) : MouseLeave(e)
  \/ \E e \in 1..Len(elems) : ClickBanner(e)
  \/ \E e \in 1..Len(elems) : ClickViewDetails(e)
  \/ \E e \in 1..Len(elems) : ClickOverlayClose(e)
  \/ PressEscape

Spec == Init /\ [][Next]_vars

SpecDetect == InitDetect /\ [][Next]_vars

(***************************************************************************)
(* Properties.                                                             *)
(***************************************************************************)
ReplyHandled == pc \in {"Failed", "NotFlagged", "Scored"}

\* the mark of the reply, in thousandths, when the reply has a positive one
MarkOfReply == server.data[1].mark[1]

PositiveMark ==
  /\ server.data # None
  /\ server.data[1].mark # None
  /\ MarkOfReply > 0

\* style of a banner in its shown and in its minimized state
IsShown(b) == b.height \in {"", "auto"} /\ b.opacity \in {"", "1"}
IsMinimized(b) == b.height \in {"4px", "20px"} /\ b.opacity = "0.5"

\* what the user sees of an element
View(b) ==
  [kind |-> b.kind, height |-> b.height, opacity |-> b.opacity,
   fontSize |-> b.fontSize, padding |-> b.padding]

\* C1: once detectEcommerce has decided, its verdict is the OR of the six
\* detectors' outcomes and its reasons are the reasons of the detectors that
\* fired, each once, in the order form, listing, link, price, storage, platform.
DetectorFired ==
  <<detectCheckoutForms(page), detectProductListings(page), detectCartLink(page),
    detectPrices(page), detectCartInLocalStorage(page),
    detectEcommercePlatform(page) # NoPlatform>>

DetectorReason ==
  <<"Checkout or cart form detected",
    "Multiple product listings detected (CSS class-based detection)",
    "Cart link detected", "Product price detected",
    "Cart data found in localStorage", detectEcommercePlatform(page)>>

FiredBefore(i) == {j \in 1..i : DetectorFired[j]}

C1_VerdictIsOrOfDetectors ==
  verdict # None =>
    LET v == verdict[1] IN
      /\ v.isEcommerce = (\E i \in 1..6 : DetectorFired[i])
      /\ Len(v.reasons) = Cardinality(FiredBefore(6))
      /\ \A i \in 1..6 :
           DetectorFired[i] =>
             v.reasons[Cardinality(FiredBefore(i))] = DetectorReason[i]

C1_Witness ==
  /\ verdict # None
  /\ verdict[1].reasons = <<"Cart link detected", "Shopify platform detected">>

\* C2: a request is sent to the scoring endpoint only after a positive
\* verdict; on a page where no detector fires no request is ever sent.
C2_RequestOnlyAfterPositiveVerdict ==
  /\ (~(\E i \in 1..6 : DetectorFired[i])) => requests = 0
  /\ requests > 0 => (verdict # None /\ verdict[1].isEcommerce)

C2_Witness ==
  /\ pc = "NotEcommerce"
  /\ ~(\E i \in 1..6 : DetectorFired[i])
  /\ requests = 0

C4_NothingShownWithoutPositiveMark ==
  (server.transport /\ server.json /\ ~PositiveMark) =>
    (elems = <<>> /\ doc = <<>> /\ tier = "None")

C4_Witness ==
  /\ pc = "NotFlagged"
  /\ server.data # None
  /\ server.data[1].mark = Some(0)
  /\ elems = <<>>

\* C5: when the request fails in transport, returns a non-2xx status or
\* returns a body that is not JSON, the failure is logged, processing stops,
\* nothing is inserted and no exception reaches the host page.
C5_FailedRequestShowsNothing ==
  (ReplyHandled /\ (~server.transport \/ ~server.ok \/ ~server.json)) =>
    /\ pc = "Failed"
    /\ logs[Len(logs)] = "error: API request failed:"
    /\ elems = <<>>
    /\ doc = <<>>
    /\ hostErrors = 0

\* every array element of the reply is present and every url that is present
\* is an absolute one: the reply differs from a full one by missing fields only
OnlyMissingFields ==
  /\ server.data # None
  /\ \A i \in 1..Len(args.technos) : args.technos[i] # None
  /\ \A i \in 1..Len(args.similarArticles) :
       /\ args.similarArticles[i] # None
       /\ args.similarArticles[i][1].url # None =>
            args.similarArticles[i][1].url[1].absolute

\* C6: a reply with mark > 0 in which optional fields are missing is rendered
\* at the tier its probability selects; a missing field raises no error and
\* does not suppress the banner or overlay.
C6_MissingFieldsAreDefaulted ==
  (ReplyHandled /\ server.transport /\ server.json /\ PositiveMark
     /\ OnlyMissingFields) =>
    /\ pc = "Scored"
    /\ hostErrors = 0
    /\ tier = "Banner" => \E e \in 1..Len(elems) : elems[e].kind = "banner"
    /\ tier = "Overlay" => \E e \in 1..Len(elems) : elems[e].kind = "overlay"

\* C7: closing an overlay with its close control leaves exactly one banner in
\* the document, and the document never holds more than one banner.
C7_BannerRestoredNotDuplicated ==
  [][/\ Cardinality(InDoc(doc', "banner", elems')) <= 1
     /\ (\E o \in 1..Len(elems) : ClickOverlayClose(o)) =>
          Cardinality(InDoc(doc', "banner", elems')) = 1
    ]_vars

\* C8: whenever overlays are displayed, the close control of an overlay or
\* the Escape key leaves no overlay in the document.
C8_CloseLeavesNoOverlay ==
  [][(Overlays # {} /\ (PressEscape \/ \E o \in 1..Len(elems) : ClickOverlayClose(o)))
       => InDoc(doc', "overlay", elems') = {}
    ]_vars

\* C9: a click on a shown banner's minimize control leaves the banner
\* minimized (reduced height and opacity) and still in the document once the
\* click has been dispatched; hovering or clicking the banner shows it again.
C9_MinimizeThenRestore ==
  [][\A b \in 1..Len(elems) :
       /\ ClickMinimize(b) =>
            (IsMinimized(elems'[b]) /\ \E i \in 1..Len(doc') : doc'[i] = b)
       /\ (MouseEnter(b) \/ ClickBanner(b)) => IsShown(elems'[b])
    ]_vars

\* C10: a click on the minimize control leaves what the user sees as a second
\* click on it would (clicking n times is clicking once), and never removes or
\* adds an element; Escape, once no overlay is in the document, changes
\* nothing and raises no error.
C10_HandlersIdempotent ==
  [][/\ \A b \in 1..Len(elems) :
          ClickMinimize(b) =>
            /\ View(BubbleClick(minimizeListener(elems'[b]))) = View(elems'[b])
            /\ doc' = doc
            /\ hostErrors' = hostErrors
     /\ (PressEscape /\ Overlays = {}) =>
          (doc' = doc /\ elems' = elems /\ hostErrors' = hostErrors)
    ]_vars

C10_Witness ==
  /\ \E b \in 1..Len(elems) : elems[b].kind = "banner" /\ elems[b].listeners >= 2
  /\ Len(keydown) > 0
  /\ Overlays = {}


\* C12: at most one scoring request is sent per page load: none after a
\* failed or rejected request, none after an interaction with a banner or an
\* overlay.
C12_AtMostOneRequest == requests <= 1

\* the request was rejected, the failure is logged, and one request was sent
C12_Witness ==
  /\ pc = "Failed"
  /\ ~server.transport
  /\ requests = 1


\* the state of the specified machine a state of the page load is in; the
\* states Detecting, Scored and OverlayClosed are passed within one step
\* (Detecting is kept only when detection stops in it), and a reply that is
\* not flagged counts as Suppressed
Phase ==
  CASE pc = "Idle" -> "Idle"
    [] pc = "DetectThrew" -> "Detecting"
    [] pc = "NotEcommerce" -> "NotEcommerce"
    [] pc = "Scanning" -> "Scanning"
    [] pc = "Failed" -> "Failed"
    [] pc = "NotFlagged" -> "Suppressed"
    [] pc = "Scored" ->
         IF tier = "Suppressed" THEN "Suppressed"
         ELSE IF Overlays # {} THEN "OverlayShown"
         ELSE IF \E i \in Banners : IsShown(elems[doc[i]]) THEN "BannerShown"
         ELSE IF Banners # {} THEN "BannerMinimized"
         ELSE "Removed"

\* the transitions of the specified machine, with the states passed within
\* one step left out
SpecifiedTransitions ==
  { <<"Idle", "Detecting">>, <<"Idle", "NotEcommerce">>, <<"Idle", "Scanning">>,
    <<"Scanning", "Failed">>, <<"Scanning", "Suppressed">>,
    <<"Scanning", "BannerShown">>,
    <<"BannerShown", "BannerMinimized">>, <<"BannerMinimized", "BannerShown">>,
    <<"BannerShown", "OverlayShown">>,
    <<"OverlayShown", "BannerShown">>, <<"OverlayShown", "Removed">> }

\* C11 as stated: every step stays in its state or takes a transition of the
\* specified machine; OverlayShown is entered only from BannerShown.
C11_OnlySpecifiedTransitions ==
  [][Phase' # Phase => <<Phase, Phase'>> \in SpecifiedTransitions]_vars


\* the transitions the specified machine lacks: the overlay shown at once at a
\* probability of 90 or more, "Voir les details" activated on a minimized
\* banner, and an overlay dismissed while the banner is minimized
AmendedTransitions ==
  SpecifiedTransitions \cup
  { <<"Scanning", "OverlayShown">>, <<"BannerMinimized", "OverlayShown">>,
    <<"OverlayShown", "BannerMinimized">> }

\* C11, amended: every step stays in its state or takes a transition of the
\* specified machine or one of the three above; NotEcommerce, Failed,
\* Suppressed and a detection that stopped have no outgoing transition.
C11_OnlyAmendedTransitions ==
  [][Phase' # Phase => <<Phase, Phase'>> \in AmendedTransitions]_vars


\* the overlay is shown at once: it is the only element ever created
C11_Witness ==
  /\ Phase = "OverlayShown"
  /\ Len(elems) = 1
  /\ tier = "Overlay"


\* the element the presenter created first: the one the reply is answered with
FirstIs(kind) == elems # <<>> /\ elems[1].kind = kind

C14_NoHandlerThrows ==
  [][pc = "Scored" => hostErrors' = hostErrors]_vars

\* C15: detection never fails: whatever the page, local storage that cannot
\* be read included, the load listener ends with a verdict and without an
\* uncaught exception.
C15_DetectionNeverFails ==
  pc # "Idle" => (verdict # None /\ pc # "DetectThrew")


\* C16: the reply is applied only to the page it was asked for: the step that
\* handles the reply inserts a banner or an overlay only if the page's address
\* is still the one sent in the request.
C16_StaleResponseNotRendered ==
  [][(pc = "Scanning" /\ doc' # doc) => sentUrl = Some(location)]_vars


\* the last k labels of a hostname
LastLabels(hostname, k) == SubSeq(hostname, Len(hostname) - k + 1, Len(hostname))

\* the registrable domain as the specification defines it
RegistrableDomain(hostname) ==
  IF Len(hostname) >= 3 /\ hostname[Len(hostname) - 1] \in {"co", "com"}
  THEN LastLabels(hostname, 3)
  ELSE LastLabels(hostname, 2)

\* the hostname of the i-th similar article of the reply
HostnameOf(i) == args.similarArticles[i][1].url[1].hostname

\* C17: in every overlay rendered, each article is in exactly one group, the
\* group of its hostname's registrable domain (the last two labels, the last
\* three when the second-to-last is co or com); the groups are in the order in
\* which their domains are first seen, the articles of a group in input order;
\* a.shop.co.uk, b.shop.co.uk, x.example.com give shop.co.uk then example.com.
C17_GroupedByRegistrableDomain ==
  \A e \in 1..Len(elems) :
    elems[e].kind = "overlay" =>
      LET groups == elems[e].groups
          n == Len(args.similarArticles)
      IN /\ \A i \in 1..n :
              \E g \in 1..Len(groups) :
                /\ groups[g].domain = RegistrableDomain(HostnameOf(i))
                /\ \E k \in 1..Len(groups[g].articles) : groups[g].articles[k] = i
                /\ \A h \in 1..Len(groups) :
                     (\E k \in 1..Len(groups[h].articles) : groups[h].articles[k] = i)
                       => h = g
         /\ \A g \in 1..Len(groups) :
              /\ Len(groups[g].articles) > 0
              /\ \A k \in 1..Len(groups[g].articles) :
                   /\ groups[g].articles[k] \in 1..n
                   /\ k > 1 => groups[g].articles[k - 1] < groups[g].articles[k]
              /\ \A h \in 1..(g - 1) :
                   /\ groups[h].domain # groups[g].domain
                   /\ groups[h].articles[1] < groups[g].articles[1]
         /\ args.similarArticles = <<a_shopA, a_shopB, a_example>> =>
              groups = << [domain |-> <<"shop", "co", "uk">>, articles |-> <<1, 2>>],
                          [domain |-> <<"example", "com">>, articles |-> <<3>>] >>

\* an overlay with interleaved domains: example.com (articles 1 and 3),
\* shop.co.uk (2 and 5), shop.com.au (4)
C17_Witness ==
  \E e \in 1..Len(elems) :
    /\ elems[e].kind = "overlay"
    /\ Len(elems[e].groups) = 3
    /\ elems[e].groups[1] = [domain |-> <<"example", "com">>, articles |-> <<1, 3>>]
    /\ elems[e].groups[2] = [domain |-> <<"shop", "co", "uk">>, articles |-> <<2, 5>>]


\* C18: the probability displayed by every banner and overlay lies in
\* [0, 100], whatever numeric mark the reply carries.
C18_ProbabilityInRange ==
  \A e \in 1..Len(elems) :
    elems[e].probability >= 0 /\ elems[e].probability <= 100 * Milli

\* the numeric marks a reply may carry
NumericMarks == {m[1] : m \in Marks \ {None}}

TierRank(t) == CASE t = "Suppressed" -> 0 [] t = "Banner" -> 1 [] t = "Overlay" -> 2

\* C19: the probability is mark / 5 * 100: 0 at mark 0, 50 at 2.5, 100 at 5;
\* the probability displayed for the reply's mark is that value, it is below
\* the probability of every higher mark and above that of every lower one, and
\* the tier selected for the reply is at most the tier of every higher mark and
\* at least the tier of every lower one.
C19_ProbabilityLinearTierMonotone ==
  /\ Probability(0) = 0
  /\ Probability((5 * Milli) \div 2) = 50 * Milli
  /\ Probability(5 * Milli) = 100 * Milli
  /\ (ReplyHandled /\ PositiveMark) =>
       /\ \A e \in 1..Len(elems) : elems[e].probability * 5 = MarkOfReply * 100
       /\ \A m \in NumericMarks :
            /\ m > MarkOfReply =>
                 /\ Probability(m) > Probability(MarkOfReply)
                 /\ TierRank(showDropshippingWarning(m)) >= TierRank(tier)
            /\ m < MarkOfReply =>
                 /\ Probability(m) < Probability(MarkOfReply)
                 /\ TierRank(showDropshippingWarning(m)) <= TierRank(tier)

\* mark 2.475: probability 49.5, suppressed, between the marks 1 and 2.5
C19_Witness ==
  /\ pc = "Scored"
  /\ PositiveMark
  /\ MarkOfReply = 2475
  /\ tier = "Suppressed"
  /\ Probability(MarkOfReply) = 49500


\* before a reply is handled: detection has not run, has stopped, has found
\* nothing, or the request is in flight
BeforeReply == pc \in {"Idle", "DetectThrew", "NotEcommerce", "Scanning"}

C21_DetectorsIndependent ==
  (pc \in {"NotEcommerce", "Scanning"}) =>
    /\ page = PageOf({}) =>
         /\ \A d \in 1..6 : ~DetectorFired[d]
         /\ verdict[1] = [isEcommerce |-> FALSE, reasons |-> <<>>]
    /\ \A d \in 1..6 :
         page \in MinimalPages[d] =>
           /\ \A other \in 1..6 : DetectorFired[other] = (other = d)
           /\ verdict[1] = [isEcommerce |-> TRUE, reasons |-> <<DetectorReason[d]>>]

\* detection has run on the page whose only trigger is the text of a form
C21_Witness ==
  /\ page = NodesPage(<<FormNode(NULL, t_addToCart)>>)
  /\ verdict # None
  /\ verdict[1].reasons = <<"Checkout or cart form detected">>


\* one of the cart keys exists in local storage
CartKeyExists == \E k \in 1..Len(cartKeys) : \E e \in page.storage : e.key = cartKeys[k]

\* C22: the cart-in-storage detector fires exactly when one of the seven keys
\* exists in local storage, whatever its value, the empty string included:
\* the verdict has the detector's reason exactly in that case.
C22_FiresWhenCartKeyExists ==
  verdict # None =>
    ((\E r \in 1..Len(verdict[1].reasons) :
        verdict[1].reasons[r] = "Cart data found in localStorage")
     <=> CartKeyExists)


\* the pieces of s between the occurrences of sep
RECURSIVE SplitOn(_, _)
SplitOn(s, sep) ==
  IF \E i \in 1..Len(s) : s[i] = sep
  THEN LET i == CHOOSE j \in 1..Len(s) : s[j] = sep /\ \A k \in 1..(j - 1) : s[k] # sep
       IN <<SubSeq(s, 1, i - 1)>> \o SplitOn(SubSeq(s, i + 1, Len(s)), sep)
  ELSE <<s>>

\* the decoding a receiver of a form body applies to a name or a value
RECURSIVE formDecode(_)
formDecode(s) ==
  IF s = <<>> THEN <<>>
  ELSE IF s[1] = "+" THEN <<" ">> \o formDecode(Tail(s))
  ELSE IF s[1] = "%" /\ Len(s) >= 3 /\ \E e \in PercentCodes : e[2] = SubSeq(s, 1, 3)
  THEN <<(CHOOSE e \in PercentCodes : e[2] = SubSeq(s, 1, 3))[1]>>
       \o formDecode(SubSeq(s, 4, Len(s)))
  ELSE <<s[1]>> \o formDecode(Tail(s))

\* the parameters a receiver reads from a form body: the pieces between the
\* ampersands, each cut at its first equals sign
ParseForm(body) ==
  LET pieces == SplitOn(body, "&") IN
  [i \in 1..Len(pieces) |->
     LET nameValue == SplitOn(pieces[i], "=")
     IN <<formDecode(nameValue[1]),
          formDecode(SubSeq(pieces[i], Len(nameValue[1]) + 2, Len(pieces[i])))>>]

\* C23: whatever detectors fired, the step that sends the request makes a
\* POST whose form body holds exactly two parameters, lg = fr and url = the
\* address the page has in that step; the request does not change afterwards.
C23_BodyIsLgAndUrl ==
  [][/\ (request = None /\ request' # None) =>
          /\ request'[1].method = "POST"
          /\ request'[1].contentType = "application/x-www-form-urlencoded"
          /\ ParseForm(request'[1].body) =
               << <<<<"l","g">>, <<"f","r">>>>, <<<<"u","r","l">>, location>> >>
     /\ request # None => request' = request]_vars

\* the request was sent for a page on which two detectors fired, and the page
\* has changed its address since
C23_Witness ==
  /\ request # None
  /\ verdict # None
  /\ Len(verdict[1].reasons) = 2
  /\ location # LoadedAt


\* C24: activating the "Voir les details" control of a displayed banner, a
\* recreated one included, adds exactly one overlay to the document.
C24_DetailsOpensOneOverlay ==
  [][\A b \in 1..Len(elems) :
       ClickViewDetails(b) =>
         /\ Cardinality(InDoc(doc', "overlay", elems')) = Cardinality(Overlays) + 1
         /\ Len(doc') = Len(doc) + 1]_vars


\* the numbers of banners and of overlays in a document
Census(d, e) ==
  [banners |-> Cardinality(InDoc(d, "banner", e)),
   overlays |-> Cardinality(InDoc(d, "overlay", e))]

\* C25: closing a displayed overlay with its close control leaves as many
\* banners and as many overlays in the document as the Escape key would have
\* left in the same state.
C25_EscapeSameAsClose ==
  [][\A o \in 1..Len(elems) :
       ClickOverlayClose(o) =>
         Census(doc', elems') = Census(escapeListeners(ui).doc, escapeListeners(ui).elems)
    ]_vars


C27_PipelineEndsInNamedState ==
  /\ pc \notin {"Idle", "Scanning"} =>
       Phase \in {"NotEcommerce", "Failed", "Suppressed", "BannerShown", "OverlayShown",
                  "BannerMinimized", "Removed"}
  /\ requests <= 1
  /\ pc # "Idle" => ~ENABLED Load


\* C28: the document has at most one Escape keydown listener per overlay in
\* the document, and each banner at most one mouseenter, one mouseleave and
\* one restoring click listener.
C28_ListenersDoNotAccumulate ==
  /\ Len(keydown) <= Cardinality(Overlays)
  /\ \A b \in 1..Len(elems) : elems[b].kind = "banner" => elems[b].listeners <= 1


\* the positions after a well-formed amount that starts at i: the symbol, one
\* to three digits, groups of a separator and three digits, and optionally
\* the decimal mark and two digits
WellFormedEnds(s, i) ==
  AmountEnds(s, i, "$", ",", "\\.")
  \cup AmountEnds(s, i, "EUR", "\\.", ",")
  \cup AmountEnds(s, i, "GBP", ",", "\\.")

\* the amount ends at e: no digit follows, nor a separator and a digit
AmountStopsAt(s, e) ==
  \/ e > Len(s)
  \/ /\ ~IsDigit(s[e])
     /\ ~(s[e] \in {",", "."} /\ e + 1 <= Len(s) /\ IsDigit(s[e + 1]))

ContainsWellFormedAmount(s) ==
  \E i \in 1..Len(s) : \E e \in WellFormedEnds(s, i) : AmountStopsAt(s, e)

\* a currency symbol directly followed by a digit
ContainsSymbolAndDigit(s) ==
  \E i \in 1..(Len(s) - 1) : s[i] \in {"$", "EUR", "GBP"} /\ IsDigit(s[i + 1])

PriceReasonGiven ==
  \E r \in 1..Len(verdict[1].reasons) : verdict[1].reasons[r] = "Product price detected"

\* C29 as stated: the price detector fires exactly when the visible text
\* contains a well-formed amount: a symbol with a number in standard
\* thousands grouping and an optional two-digit decimal part.
C29_FiresOnWellFormedAmountsOnly ==
  verdict # None =>
    (PriceReasonGiven <=> ContainsWellFormedAmount(BodyInnerText(page)))

\* C29, amended: the price detector fires exactly when the visible text
\* contains one of the three symbols directly followed by a digit.
C29_FiresOnSymbolAndDigit ==
  verdict # None =>
    (PriceReasonGiven <=> ContainsSymbolAndDigit(BodyInnerText(page)))

\* detection has run on the page whose text is $1234, and gave the reason
C29_Witness ==
  /\ verdict # None
  /\ page = TextPage(<<"$","1","2","3","4">>)
  /\ PriceReasonGiven


(***************************************************************************)
(* Revision 0.5 of the presenter: one threshold, no suppression band, a    *)
(* banner that is removed by its close button.  Detection and the request  *)
(* are those of revision 0.6.                                              *)
(***************************************************************************)
PROBABILITY_THRESHOLD == 49

\* the branch revision 0.5's showDropshippingWarning takes
v05_showDropshippingWarning(mark) ==
  IF Probability(mark) <= PROBABILITY_THRESHOLD * Milli THEN "Banner" ELSE "Overlay"

\* revision 0.5's then-callback
v05_thenSelects(data) ==
  IF Flagged(data) THEN v05_showDropshippingWarning(ArgsOf(data).mark) ELSE "None"

\* revision 0.5's showFullScreenWarning throws before it appends the overlay:
\* tech.name on an absent techno, getApexDomain(article.url) on an absent
\* article or an absent or relative url
v05_showFullScreenWarningThrows(a) ==
  \/ (Len(a.technos) > 0 /\ TechnosThrow(a.technos))
  \/ \E i \in 1..Len(a.similarArticles) :
       \/ a.similarArticles[i] = None
       \/ UrlThrows(a.similarArticles[i][1].url)

\* revision 0.5's banner has a close button only
v05_showTopBannerWarning(u, w) ==
  UI(Append(u.elems, NewBanner(w)), Append(u.doc, Len(u.elems) + 1), u.keydown)

v05_DataArrives ==
  /\ pc = "Scanning"
  /\ server.transport
  /\ server.json
  /\ LET selected == v05_thenSelects(server.data)
         detected == Append(logs, "debug: Dropshipping site detected.")
     IN CASE selected = "None" ->
               /\ logs' = Append(logs, "debug: No dropshipping detected.")
               /\ pc' = "NotFlagged"
               /\ UNCHANGED <<tier, elems, doc, keydown>>
          [] selected = "Banner" ->
               /\ tier' = selected
               /\ logs' = detected
               /\ pc' = "Scored"
               /\ SetUI(v05_showTopBannerWarning(ui, warning))
          [] selected = "Overlay" ->
               /\ tier' = selected
               /\ IF v05_showFullScreenWarningThrows(args)
                  THEN /\ logs' = Append(detected, "error: API request failed:")
                       /\ pc' = "Failed"
                       /\ UNCHANGED <<elems, doc, keydown>>
                  ELSE /\ logs' = detected
                       /\ pc' = "Scored"
                       /\ SetUI(showFullScreenWarning(ui, warning))
  /\ UNCHANGED <<page, server, verdict, requests, hostErrors, location, sentUrl, request>>

\* a click on the "Fermer" button of a banner or of an overlay: element.remove()
v05_ClickClose(e) ==
  /\ e \in {doc[i] : i \in 1..Len(doc)}
  /\ doc' = Remove(doc, e)
  /\ UNCHANGED <<page, server, pc, verdict, requests, logs, tier, elems, keydown,
                 hostErrors, location, sentUrl, request>>

v05_Next ==
  \/ Load
  \/ FetchRejects
  \/ JsonRejects
  \/ v05_DataArrives
  \/ Navigate
  \/ \E e \in 1..Len(elems) : v05_ClickClose(e)
  \/ PressEscape

SpecRev05 == Init /\ [][v05_Next]_vars

\* C30: in revision 0.5, once a reply with mark > 0 is handled, the overlay
\* branch was taken exactly when the probability is at least 50 and the
\* banner branch otherwise, probabilities between 49 and 50 included; the
\* element rendered first is of that kind.
C30_Rev05OverlayFrom50 ==
  (ReplyHandled /\ PositiveMark) =>
    /\ tier = (IF Probability(MarkOfReply) >= 50 * Milli THEN "Overlay" ELSE "Banner")
    /\ pc = "Scored" => FirstIs(IF tier = "Overlay" THEN "overlay" ELSE "banner")

====
